---- MODULE Spec2Model ----
(***************************************************************************)
(* Double-DQN agent with a frame-stacking replay buffer                    *)
(* (Double-DQN/ddqn_agent.py): the Agent (step, act, learn, soft_update)   *)
(* and the ReplayBuffer (add, _encode_state, get_experiences, sample,      *)
(* __len__).                                                               *)
(*                                                                         *)
(* Numbers.  A frame is one pixel, an integer intensity.  Rewards, action  *)
(* values and network parameters are fixed-point integers in units of      *)
(* 1e-7 (a reward of 1.0 is 10000000), fine enough that TAU x LR is a      *)
(* whole number of units; a product with a fraction is rounded to that     *)
(* grid.  GAMMA, TAU, eps and random.random() are fractions num/den.       *)
(* Indices are 0-based as in the source; At reads the deque.               *)
(***************************************************************************)
EXTENDS Integers, Sequences, FiniteSets, TLC

VARIABLES
    memory,            \* ReplayBuffer.memory: the deque of Experience tuples
    t_step,            \* Agent.t_step
    qnetwork_local,    \* parameters of Agent.qnetwork_local, by position
    qnetwork_target,   \* parameters of Agent.qnetwork_target, by position
    training,          \* training-mode flag of qnetwork_local
    calls,             \* number of Agent.step calls made so far
    order,             \* for each item of memory, the number of the add call that put it
    last               \* the operation that ran last, what it was given and returned

vars == <<memory, t_step, qnetwork_local, qnetwork_target, training, calls, order, last>>

(***************************************************************************)
(* Hyperparameters and the sizes of the model                              *)
(***************************************************************************)
\* The sizes are scaled down: the source sets BUFFER_SIZE = 1e5,
\* BATCH_SIZE = 32, UPDATE_EVERY = 4, and frame_history defaults to 4.
BUFFER_SIZE == 3
BATCH_SIZE == 2
UPDATE_EVERY == 2
GAMMA == [num |-> 99, den |-> 100]
TAU == [num |-> 1, den |-> 1000]
LR == 5000
action_size == 2
frame_history == 2
NORM == 255

MaxCalls == 4        \* Agent.step calls in one behaviour
MaxHistory == 4      \* frame_history values the encoder is examined with
RandDen == 2         \* random.random() and eps are multiples of 1/RandDen
NumFeatures == 2     \* rows of the action-value table the network computes

Min(a, b) == IF a < b THEN a ELSE b
Max(a, b) == IF a > b THEN a ELSE b

\* Two pixel intensities; 0 is left to the zero frames of the padding.
Frames == {1, 2}
Actions == 0..(action_size - 1)

\* The namedtuple Experience(state, action, reward, next_state, done).
experience(state, action, reward, next_state, done) ==
    [state |-> state, action |-> action, reward |-> reward,
     next_state |-> next_state, done |-> done]

\* The transitions the driving loop records.  The frame and the done flag,
\* which the encoder reads, range freely; the action alternates with both, the
\* reward 1.0 is paid on frame 2, and the next frame is the other one.
Experiences ==
    { experience(s, (s + (IF d THEN 1 ELSE 0)) % action_size,
                 IF s = 2 THEN 10000000 ELSE 0, 3 - s, d) :
        s \in Frames, d \in BOOLEAN }

(***************************************************************************)
(* ReplayBuffer                                                            *)
(***************************************************************************)
\* A full deque that drops its newest item instead of its oldest.
DequeAppendDropsNewest(mem, e, maxlen) ==
    IF Len(mem) < maxlen THEN Append(mem, e)
    ELSE IF maxlen = 0 THEN mem
    ELSE Append(SubSeq(mem, 1, Len(mem) - 1), e)

\* deque(maxlen=buffer_size).append: a full deque drops its leftmost item.
DequeAppend(mem, e, maxlen) ==
    IF Len(mem) < maxlen THEN Append(mem, e)
    ELSE IF maxlen = 0 THEN mem
    ELSE Append(Tail(mem), e)

\* An add that writes over the oldest slot of a full store in place.
addInPlace(mem, e) ==
    IF Len(mem) < BUFFER_SIZE THEN Append(mem, e) ELSE [mem EXCEPT ![1] = e]

\* ReplayBuffer.add
add(mem, e) == DequeAppend(mem, e, BUFFER_SIZE)

\* self.memory[idx % n], idx >= 0
At(mem, idx) == mem[(idx % Len(mem)) + 1]

\* The start_idx the scan of _encode_state leaves: the window start clipped
\* at 0, moved past the last done flag among start..end_idx-2.
RECURSIVE Scan(_, _, _, _)
Scan(mem, i, stop, start) ==
    IF i >= stop THEN start
    ELSE Scan(mem, i + 1, stop, IF At(mem, i).done THEN i + 1 ELSE start)

StartIdx(mem, H, idx) ==
    LET end_idx == idx + 1
        start0  == Max(end_idx - H, 0)
    IN  Scan(mem, start0, end_idx - 1, start0)

\* The padding counted without the target frame itself.
MissingContextOffByOne(mem, H, idx) == H - (idx - StartIdx(mem, H, idx))

\* missing_context = self.frame_history - (end_idx - start_idx)
MissingContext(mem, H, idx) == H - ((idx + 1) - StartIdx(mem, H, idx))

\* The slots of the stack _encode_state builds: -1 for a zero frame, else the
\* index i whose frame self.memory[i % n].state fills the slot.
EncodeSlots(mem, H, idx) ==
    LET start   == StartIdx(mem, H, idx)
        missing == MissingContext(mem, H, idx)
        real    == (idx + 1) - start
    IN  [k \in 1..(Max(missing, 0) + real) |->
            IF k <= missing THEN -1 ELSE start + (k - Max(missing, 0)) - 1]

\* / 255.0
Normalize(f) == [num |-> f, den |-> NORM]

\* ReplayBuffer._encode_state
_encode_state(mem, H, idx) ==
    LET slots == EncodeSlots(mem, H, idx)
    IN  [k \in 1..Len(slots) |->
            IF slots[k] = -1 THEN Normalize(0) ELSE Normalize(At(mem, slots[k]).state)]

\* ReplayBuffer.get_experiences
get_experiences(mem, H, experiences_idx) ==
    [k \in 1..Len(experiences_idx) |->
        LET idx == experiences_idx[k]
        IN  experience(_encode_state(mem, H, idx), mem[idx + 1].action,
                       mem[idx + 1].reward, _encode_state(mem, H, idx + 1),
                       mem[idx + 1].done)]

\* A draw with replacement: every list of k members of 0..n-1.
RandomSampleWithReplacement(n, k) ==
    IF k > n THEN {} ELSE [1..k -> 0..(n - 1)]

\* random.sample(range(n), k): every list of k pairwise distinct members of
\* 0..n-1; no list (ValueError) when k > n.
RandomSample(n, k) ==
    IF k > n THEN {}
    ELSE { s \in [1..k -> 0..(n - 1)] : \A i, j \in 1..k : i # j => s[i] # s[j] }

\* astype(np.uint8).float() of a done flag
DoneFlag(d) == IF d THEN 1 ELSE 0

\* The five stacked arrays ReplayBuffer.sample returns for the drawn indices.
Batch(mem, H, experiences_idx) ==
    LET es == get_experiences(mem, H, experiences_idx)
    IN  [states      |-> [k \in 1..Len(es) |-> es[k].state],
         actions     |-> [k \in 1..Len(es) |-> es[k].action],
         rewards     |-> [k \in 1..Len(es) |-> es[k].reward],
         next_states |-> [k \in 1..Len(es) |-> es[k].next_state],
         dones       |-> [k \in 1..Len(es) |-> DoneFlag(es[k].done)]]

NoBatch == [states |-> <<>>, actions |-> <<>>, rewards |-> <<>>,
            next_states |-> <<>>, dones |-> <<>>]

(***************************************************************************)
(* The two Q-networks                                                      *)
(***************************************************************************)
NumParams == NumFeatures * action_size

\* The parameter vectors a network is constructed with.
ParamInit(c) ==
    [p \in 1..NumParams |-> 10000000 * ((((p - 1) \div action_size) * c + (p - 1)) % 2)]

LocalInit == ParamInit(1)
TargetInit == ParamInit(0)

RECURSIVE SumNums(_, _)
SumNums(stack, k) == IF k = 0 THEN 0 ELSE stack[k].num + SumNums(stack, k - 1)

\* The row of the table a stacked state selects.
Feature(stack) == SumNums(stack, Len(stack)) % NumFeatures

ParamIndex(stack, a) == Feature(stack) * action_size + a + 1

\* QNetwork.forward: the action values of one stacked state.
QNetwork(theta, stack) == [a \in Actions |-> theta[ParamIndex(stack, a)]]

\* np.argmax / Tensor.max(1)[1]: the first index of the largest value.
ArgMax(q) == CHOOSE a \in DOMAIN q :
                /\ \A b \in DOMAIN q : q[b] <= q[a]
                /\ \A b \in DOMAIN q : b < a => q[b] < q[a]

\* x * num / den on the fixed-point grid, rounded to the nearest point; the
\* quotient and the remainder of x by den are scaled apart to keep the
\* intermediate products small.
Scale(x, num, den) ==
    (x \div den) * num + (2 * (x % den) * num + den) \div (2 * den)

(***************************************************************************)
(* Agent.learn                                                             *)
(***************************************************************************)
\* self.qnetwork_local(next_states).detach().max(1, keepdim=True)[1]
NextStateActions(local, next_states) ==
    [i \in 1..Len(next_states) |-> ArgMax(QNetwork(local, next_states[i]))]

\* The target network's own maximum, as in DQN without the double estimator.
QTargetsNextOwnMax(local, target, next_states) ==
    [i \in 1..Len(next_states) |->
        QNetwork(target, next_states[i])[ArgMax(QNetwork(target, next_states[i]))]]

\* self.qnetwork_target(next_states).detach().gather(1, next_state_actions)
QTargetsNext(local, target, next_states) ==
    LET next_state_actions == NextStateActions(local, next_states)
    IN  [i \in 1..Len(next_states) |->
            QNetwork(target, next_states[i])[next_state_actions[i]]]

\* The targets without the (1 - dones) factor.
QTargetsNoDoneMask(local, target, batch, gamma) ==
    LET Q_targets_next == QTargetsNext(local, target, batch.next_states)
    IN  [i \in 1..Len(batch.rewards) |->
            batch.rewards[i] + Scale(Q_targets_next[i], gamma.num, gamma.den)]

\* rewards + (gamma * Q_targets_next * (1 - dones))
QTargets(local, target, batch, gamma) ==
    LET Q_targets_next == QTargetsNext(local, target, batch.next_states)
    IN  [i \in 1..Len(batch.rewards) |->
            batch.rewards[i]
            + Scale(Q_targets_next[i] * (1 - batch.dones[i]), gamma.num, gamma.den)]

\* self.qnetwork_local(states).gather(1, actions)
QExpected(local, batch) ==
    [i \in 1..Len(batch.states) |-> QNetwork(local, batch.states[i])[batch.actions[i]]]

\* Derivative of F.smooth_l1_loss in the prediction: the error clipped to [-1, 1].
HuberGrad(d) == Max(-10000000, Min(10000000, d))

\* The gradient of the loss in parameter p: the clipped errors of the batch
\* rows 1..i whose predicted value Q_expected reads p.
RECURSIVE GradSum(_, _, _, _, _)
GradSum(batch, Q_expected, Q_targets, p, i) ==
    IF i = 0 THEN 0
    ELSE GradSum(batch, Q_expected, Q_targets, p, i - 1)
         + (IF ParamIndex(batch.states[i], batch.actions[i]) = p
            THEN HuberGrad(Q_expected[i] - Q_targets[i]) ELSE 0)

Sign(x) == IF x > 0 THEN 1 ELSE IF x < 0 THEN -1 ELSE 0

\* zero_grad(); loss.backward(); optimizer.step(): the optimizer holds the
\* local network's parameters only and moves each against its gradient by LR.
OptimizerStep(local, batch, Q_targets) ==
    LET Q_expected == QExpected(local, batch)
    IN  [p \in 1..Len(local) |->
            local[p] - LR * Sign(GradSum(batch, Q_expected, Q_targets, p, Len(batch.states)))]

\* The blend with the two networks' roles exchanged.
soft_update_swapped(local, target, tau) ==
    [p \in 1..Min(Len(target), Len(local)) |->
        Scale(target[p], tau.num, tau.den) + Scale(local[p], tau.den - tau.num, tau.den)]

\* Agent.soft_update: zip pairs the parameters position by position.
soft_update(local, target, tau) ==
    [p \in 1..Min(Len(target), Len(local)) |->
        Scale(local[p], tau.num, tau.den) + Scale(target[p], tau.den - tau.num, tau.den)]

(***************************************************************************)
(* The record of the last operation                                        *)
(***************************************************************************)
Blank ==
    [op |-> "init", e |-> <<>>, learned |-> FALSE, ok |-> TRUE,
     experiences_idx |-> <<>>, experiences |-> NoBatch,
     next_state_actions |-> <<>>, Q_targets_next |-> <<>>, Q_targets |-> <<>>,
     stepped |-> <<>>, state |-> <<>>, eps |-> 0, branch |-> "none",
     action |-> 0, tau |-> [num |-> 0, den |-> 1],
     local0 |-> <<>>, target0 |-> <<>>, training0 |-> TRUE]

Init ==
    /\ memory = <<>>
    /\ t_step = 0
    /\ qnetwork_local = LocalInit
    /\ qnetwork_target = TargetInit
    /\ training = TRUE
    /\ calls = 0
    /\ order = <<>>
    /\ last = Blank

(***************************************************************************)
(* Agent.step                                                              *)
(***************************************************************************)
\* The gate with >= in place of >.
ShouldLearnAtBatchSize(t, n) == t = 0 /\ n >= BATCH_SIZE

\* if self.t_step == 0: if len(self.memory) > BATCH_SIZE:
ShouldLearn(t, n) == t = 0 /\ n > BATCH_SIZE

\* A learn whose optimizer also holds the target network's parameters.
LearnTrainsTarget(batch, gamma, rec) ==
    LET targets == QTargets(qnetwork_local, qnetwork_target, batch, gamma)
        stepped == OptimizerStep(qnetwork_local, batch, targets)
    IN  /\ qnetwork_local' = stepped
        /\ qnetwork_target' =
              soft_update(stepped, OptimizerStep(qnetwork_target, batch, targets), TAU)
        /\ last' = [rec EXCEPT
              !.learned = TRUE,
              !.experiences = batch,
              !.next_state_actions = NextStateActions(qnetwork_local, batch.next_states),
              !.Q_targets_next = QTargetsNext(qnetwork_local, qnetwork_target, batch.next_states),
              !.Q_targets = targets,
              !.stepped = stepped,
              !.tau = TAU,
              !.local0 = qnetwork_local,
              !.target0 = qnetwork_target]

\* A learn that updates the target network before the gradient step.
LearnBlendsFirst(batch, gamma, rec) ==
    LET targets == QTargets(qnetwork_local, qnetwork_target, batch, gamma)
        stepped == OptimizerStep(qnetwork_local, batch, targets)
    IN  /\ qnetwork_local' = stepped
        /\ qnetwork_target' = soft_update(qnetwork_local, qnetwork_target, TAU)
        /\ last' = [rec EXCEPT
              !.learned = TRUE,
              !.experiences = batch,
              !.next_state_actions = NextStateActions(qnetwork_local, batch.next_states),
              !.Q_targets_next = QTargetsNext(qnetwork_local, qnetwork_target, batch.next_states),
              !.Q_targets = targets,
              !.stepped = stepped,
              !.tau = TAU,
              !.local0 = qnetwork_local,
              !.target0 = qnetwork_target]

\* learn(experiences, gamma): targets, one optimizer step, one soft update.
Learn(batch, gamma, rec) ==
    LET targets == QTargets(qnetwork_local, qnetwork_target, batch, gamma)
        stepped == OptimizerStep(qnetwork_local, batch, targets)
    IN  /\ qnetwork_local' = stepped
        /\ qnetwork_target' = soft_update(stepped, qnetwork_target, TAU)
        /\ last' = [rec EXCEPT
              !.learned = TRUE,
              !.experiences = batch,
              !.next_state_actions = NextStateActions(qnetwork_local, batch.next_states),
              !.Q_targets_next = QTargetsNext(qnetwork_local, qnetwork_target, batch.next_states),
              !.Q_targets = targets,
              !.stepped = stepped,
              !.tau = TAU,
              !.local0 = qnetwork_local,
              !.target0 = qnetwork_target]

\* A counter that is never wrapped.
TStepNoWrap(t) == t + 1

\* self.t_step = (self.t_step + 1) % UPDATE_EVERY
TStep(t) == (t + 1) % UPDATE_EVERY

Step(e) ==
    LET mem == add(memory, e)
        t   == TStep(t_step)
        rec == [Blank EXCEPT !.op = "step", !.e = e]
    IN  /\ calls < MaxCalls
        /\ memory' = mem
        /\ t_step' = t
        /\ calls' = calls + 1
        /\ order' = DequeAppend(order, calls, BUFFER_SIZE)
        /\ IF ShouldLearn(t, Len(mem))
           THEN \E idx \in RandomSample(Len(mem), BATCH_SIZE) :
                    Learn(Batch(mem, frame_history, idx), GAMMA,
                          [rec EXCEPT !.experiences_idx = idx])
           ELSE /\ last' = rec
                /\ UNCHANGED <<qnetwork_local, qnetwork_target>>
        /\ UNCHANGED training

(***************************************************************************)
(* Agent.act                                                               *)
(***************************************************************************)
\* The stacked observations the driving loop asks an action for.
ActStates(mem) ==
    IF mem = <<>>
    THEN { [k \in 1..frame_history |-> Normalize(IF k = frame_history THEN f ELSE 0)] :
             f \in Frames }
    ELSE { _encode_state(mem, frame_history, Len(mem) - 1) }

\* if random.random() > eps:
Greedy(rnd, eps) == rnd.num * eps.den > eps.num * rnd.den

\* self.qnetwork_local.eval() ... self.qnetwork_local.train(): the flag the
\* greedy branch leaves behind.
ModeAfterInference(mode) == TRUE

\* An act that counts as a recorded transition.
ActCountsStep(state, eps, rnd, choice) ==
    /\ training' = training
    /\ t_step' = TStep(t_step)
    /\ last' = [Blank EXCEPT !.op = "act", !.state = state, !.eps = eps.num,
                  !.branch = IF Greedy(rnd, eps) THEN "greedy" ELSE "random",
                  !.training0 = training,
                  !.action = IF Greedy(rnd, eps)
                             THEN ArgMax(QNetwork(qnetwork_local, state)) ELSE choice]
    /\ UNCHANGED <<memory, qnetwork_local, qnetwork_target, calls, order>>

Act(state, eps, rnd, choice) ==
    /\ IF Greedy(rnd, eps)
       THEN /\ training' = ModeAfterInference(training)
            /\ last' = [Blank EXCEPT !.op = "act", !.state = state, !.eps = eps.num,
                          !.branch = "greedy", !.training0 = training,
                          !.action = ArgMax(QNetwork(qnetwork_local, state))]
       ELSE /\ training' = training
            /\ last' = [Blank EXCEPT !.op = "act", !.state = state, !.eps = eps.num,
                          !.branch = "random", !.training0 = training,
                          !.action = choice]
    /\ UNCHANGED <<memory, t_step, qnetwork_local, qnetwork_target, calls, order>>

(***************************************************************************)
(* Direct calls of ReplayBuffer.sample and Agent.soft_update               *)
(***************************************************************************)
Sample ==
    /\ IF RandomSample(Len(memory), BATCH_SIZE) = {}
       THEN last' = [Blank EXCEPT !.op = "sample", !.ok = FALSE]
       ELSE \E idx \in RandomSample(Len(memory), BATCH_SIZE) :
                last' = [Blank EXCEPT !.op = "sample", !.experiences_idx = idx,
                           !.experiences = Batch(memory, frame_history, idx)]
    /\ UNCHANGED <<memory, t_step, qnetwork_local, qnetwork_target, training, calls, order>>

Taus == { [num |-> 0, den |-> 1], [num |-> 1, den |-> 1] }

SoftUpdate(tau) ==
    /\ qnetwork_target' = soft_update(qnetwork_local, qnetwork_target, tau)
    /\ last' = [Blank EXCEPT !.op = "soft_update", !.tau = tau,
                   !.local0 = qnetwork_local, !.target0 = qnetwork_target]
    /\ UNCHANGED <<memory, t_step, qnetwork_local, training, calls, order>>

\* qnetwork_local.train() and qnetwork_local.eval() called by the driving
\* loop, as an evaluation run does before it asks for actions.
SetMode(mode) ==
    /\ training' = mode
    /\ last' = [Blank EXCEPT !.op = "mode", !.training0 = training]
    /\ UNCHANGED <<memory, t_step, qnetwork_local, qnetwork_target, calls, order>>

Next ==
    \/ \E e \in Experiences : Step(e)
    \/ \E state \in ActStates(memory), en \in 0..RandDen, rn \in 0..(RandDen - 1), choice \in Actions :
          Act(state, [num |-> en, den |-> RandDen], [num |-> rn, den |-> RandDen], choice)
    \/ Sample
    \/ \E tau \in Taus : SoftUpdate(tau)
    \/ \E mode \in BOOLEAN : SetMode(mode)

Spec == Init /\ [][Next]_vars

(***************************************************************************)
(* The record `last` also keeps, for learn and soft_update, the parameters *)
(* the operation started from (local0, target0).                            *)
(***************************************************************************)
n_mem == Len(memory)

Sampled == (last.op = "sample" /\ last.ok) \/ (last.op = "step" /\ last.learned)

(***************************************************************************)
(* C1.  After N calls of add the store holds min(N, buffer_size)           *)
(* transitions, namely the last min(N, buffer_size) inserted ones in       *)
(* insertion order: item i is insertion number N - len + i, so that after  *)
(* buffer_size + k insertions item 0 is insertion number k; the newest     *)
(* item is the transition just added, and an item that stays in the store  *)
(* keeps its content.                                                      *)
(***************************************************************************)
RingOrder ==
    /\ n_mem = Min(calls, BUFFER_SIZE)
    /\ Len(order) = n_mem
    /\ \A i \in 1..n_mem : order[i] = calls - n_mem + (i - 1)
    /\ last.op = "step" => memory[n_mem] = last.e

RingKeeps ==
    \A i \in 1..Len(memory), j \in 1..Len(memory') :
        order[i] = order'[j] => memory'[j] = memory[i]

C1_RingEviction == [](RingOrder) /\ [][RingKeeps]_vars

C1_Witness ==
    /\ calls > BUFFER_SIZE
    /\ n_mem = BUFFER_SIZE
    /\ order[1] = calls - BUFFER_SIZE
    /\ last.op = "step"

(***************************************************************************)
(* C2.  The k-th call of step runs a learning step iff k mod update_every  *)
(* = 0 and the store, after the call's insertion, holds more than          *)
(* batch_size transitions; so none runs before call update_every, none     *)
(* while the store holds at most batch_size, and step never samples from   *)
(* fewer than batch_size + 1 transitions.                                  *)
(***************************************************************************)
C2_LearnGate ==
    last.op = "step" =>
        /\ last.learned <=> (calls % UPDATE_EVERY = 0 /\ n_mem > BATCH_SIZE)
        /\ last.learned =>
              /\ calls >= UPDATE_EVERY
              /\ n_mem >= BATCH_SIZE + 1
              /\ Len(last.experiences_idx) = BATCH_SIZE
              /\ Len(last.Q_targets) = BATCH_SIZE
        /\ ~last.learned => last.experiences_idx = <<>> /\ last.Q_targets = <<>>

C2_Witness == last.op = "step" /\ last.learned /\ calls % UPDATE_EVERY = 0

(***************************************************************************)
(* The encoder, examined for every frame_history H in 1..MaxHistory and    *)
(* every index 0..n that get_experiences can pass (idx and idx + 1).       *)
(***************************************************************************)
Histories == 1..MaxHistory

WindowStart(H, idx) == Max(idx - H + 1, 0)

\* The done transitions strictly before idx inside the lookback window.
Boundaries(mem, H, idx) == { j \in WindowStart(H, idx)..(idx - 1) : mem[j + 1].done }

\* The position in the store of the transition whose frame fills a slot.
SlotPosition(mem, slot) == slot % Len(mem)

SetMax(S) == CHOOSE x \in S : \A y \in S : y <= x

IsolatedAt(mem, H, idx) ==
    LET slots == EncodeSlots(mem, H, idx)
        bs    == Boundaries(mem, H, idx)
    IN  bs # {} =>
           /\ \A b \in bs, k \in 1..Len(slots) :
                 slots[k] # -1 => SlotPosition(mem, slots[k]) > b
           /\ \A k \in 1..Len(slots) :
                 slots[k] = -1 <=> (idx - Len(slots) + k) <= SetMax(bs)

(***************************************************************************)
(* C3.  For every store and every index passed to _encode_state, idx + 1   *)
(* of the newest transition included, the stack holds no frame of a        *)
(* transition at or before a done transition that lies strictly before     *)
(* the index inside the lookback window: real frames start right after     *)
(* the nearest such boundary, every earlier slot is a zero frame.          *)
(***************************************************************************)
C3_EpisodeIsolation ==
    n_mem >= 1 =>
        \A H \in Histories, idx \in 0..n_mem : IsolatedAt(memory, H, idx)

\* The same for the indices inside the store, 0..n-1.
C3_IsolationInsideStore ==
    n_mem >= 1 =>
        \A H \in Histories, idx \in 0..(n_mem - 1) : IsolatedAt(memory, H, idx)

\* [A(done=False), B(done=True), C(done=False)], H = 2, index 2: [zero, C].
C3_Example ==
    /\ n_mem = 3
    /\ ~memory[1].done /\ memory[2].done /\ ~memory[3].done
    /\ EncodeSlots(memory, 2, 2) = <<-1, 2>>

(***************************************************************************)
(* C4.  For a non-empty store of length n, every H >= 1 and every idx in   *)
(* 0..n, _encode_state returns exactly H frames: `missing` zero frames,    *)
(* then H - missing stored frames, where missing is H less the number of   *)
(* window indices not cut off by a done flag before idx or by the start    *)
(* of the store.  The stacks of a sampled batch have frame_history frames. *)
(***************************************************************************)
ValidFrames(mem, H, idx) ==
    { i \in WindowStart(H, idx)..idx : \A j \in i..(idx - 1) : ~mem[j + 1].done }

ShapedAt(mem, H, idx) ==
    LET stack   == _encode_state(mem, H, idx)
        slots   == EncodeSlots(mem, H, idx)
        missing == H - Cardinality(ValidFrames(mem, H, idx))
    IN  /\ Len(stack) = H
        /\ Len(slots) = H
        /\ \A k \in 1..Len(stack) :
              IF k <= missing
              THEN slots[k] = -1 /\ stack[k] = Normalize(0)
              ELSE /\ slots[k] # -1
                   /\ stack[k] = Normalize(At(mem, slots[k]).state)
                   /\ stack[k].num \in Frames

C4_StackShape ==
    /\ n_mem >= 1 => \A H \in Histories, idx \in 0..n_mem : ShapedAt(memory, H, idx)
    /\ Sampled =>
          \A i \in 1..Len(last.experiences.states) :
             /\ Len(last.experiences.states[i]) = frame_history
             /\ Len(last.experiences.next_states[i]) = frame_history

\* Index 0 of a one-entry store with H = 4: three zero frames, then the frame.
C4_Witness ==
    /\ n_mem = 1
    /\ EncodeSlots(memory, 4, 0) = <<-1, -1, -1, 0>>
    /\ _encode_state(memory, 4, 0) =
          <<Normalize(0), Normalize(0), Normalize(0), Normalize(memory[1].state)>>

(***************************************************************************)
(* C5.  Whatever random.random() returns in [0, 1), 0.0 included,          *)
(* act(state, eps = 0) takes the greedy branch and returns                 *)
(* argmax_a Q_local(state, a), and act(state, eps = 1) takes the random    *)
(* branch.                                                                 *)
(***************************************************************************)
C5_EpsilonBounds ==
    last.op = "act" =>
        /\ last.eps = 0 =>
              /\ last.branch = "greedy"
              /\ last.action = ArgMax(QNetwork(qnetwork_local, last.state))
        /\ last.eps = RandDen => last.branch = "random"

\* The half of C5 about eps = 1.
C5_EpsOneIsRandom == last.op = "act" /\ last.eps = RandDen => last.branch = "random"

Learned == last.op = "step" /\ last.learned

(***************************************************************************)
(* C6.  For every row of the batch learn computes the target              *)
(* y = R + gamma x Q_target(S', astar) x (1 - D), where                    *)
(* astar = argmax_a Q_local(S', a): the local network chooses the action,  *)
(* the target network values it.                                           *)
(***************************************************************************)
C6_DoubleQTarget ==
    Learned =>
        \A i \in 1..BATCH_SIZE :
            LET b     == last.experiences
                astar == ArgMax(QNetwork(last.local0, b.next_states[i]))
                value == QNetwork(last.target0, b.next_states[i])[astar]
            IN  /\ last.next_state_actions[i] = astar
                /\ last.Q_targets_next[i] = value
                /\ last.Q_targets[i] =
                      b.rewards[i] + Scale(value * (1 - b.dones[i]), GAMMA.num, GAMMA.den)

\* A row whose target differs from both single-network estimates.
C6_Witness ==
    /\ Learned
    /\ \E i \in 1..BATCH_SIZE :
          LET s2 == last.experiences.next_states[i]
              ql == QNetwork(last.local0, s2)
              qt == QNetwork(last.target0, s2)
          IN  /\ last.experiences.dones[i] = 0
              /\ last.Q_targets_next[i] # qt[ArgMax(qt)]
              /\ last.Q_targets_next[i] # ql[ArgMax(ql)]
              /\ last.Q_targets_next[i] = qt[ArgMax(ql)]

(***************************************************************************)
(* C7.  For a batch whose rows all have done = 1 the target of each row is *)
(* its reward exactly, whatever gamma and whatever the two networks say    *)
(* about the next states.                                                  *)
(***************************************************************************)
Gammas == { [num |-> k, den |-> GAMMA.den] : k \in {0, 1, 50, GAMMA.num, GAMMA.den} }

AllDone == \A i \in 1..Len(last.experiences.dones) : last.experiences.dones[i] = 1

C7_TerminalTarget ==
    Learned /\ AllDone =>
        /\ last.Q_targets = last.experiences.rewards
        /\ \A g \in Gammas :
              QTargets(last.local0, last.target0, last.experiences, g)
                 = last.experiences.rewards

C7_Witness ==
    /\ Learned /\ AllDone
    /\ \E i \in 1..BATCH_SIZE : last.Q_targets_next[i] # 0
    /\ \E i \in 1..BATCH_SIZE : last.experiences.rewards[i] # 0
    /\ last.Q_targets = last.experiences.rewards

(***************************************************************************)
(* C8.  soft_update sets every target parameter to                         *)
(* tau x local + (1 - tau) x target, position by position; with tau = 1    *)
(* the target equals the local network exactly, with tau = 0 it is         *)
(* unchanged; soft_update never modifies a local parameter.  The soft      *)
(* update inside learn blends the stepped local parameters with TAU.       *)
(***************************************************************************)
Blend(l, t, tau) == Scale(l, tau.num, tau.den) + Scale(t, tau.den - tau.num, tau.den)

C8_SoftUpdate ==
    /\ last.op = "soft_update" =>
          /\ qnetwork_local = last.local0
          /\ Len(qnetwork_target) = Len(last.target0)
          /\ \A p \in 1..Len(qnetwork_target) :
                qnetwork_target[p] = Blend(last.local0[p], last.target0[p], last.tau)
          /\ last.tau.num = last.tau.den => qnetwork_target = qnetwork_local
          /\ last.tau.num = 0 => qnetwork_target = last.target0
    /\ Learned =>
          /\ qnetwork_local = last.stepped
          /\ Len(qnetwork_target) = Len(last.target0)
          /\ \A p \in 1..Len(qnetwork_target) :
                qnetwork_target[p] = Blend(last.stepped[p], last.target0[p], TAU)

C8_Witness ==
    /\ last.op = "soft_update"
    /\ last.tau.num = last.tau.den
    /\ last.target0 # last.local0
    /\ qnetwork_target = qnetwork_local

(***************************************************************************)
(* C9.  sample() on a store of length n > batch_size draws batch_size      *)
(* pairwise distinct indices in [0, n) and returns five arrays of          *)
(* batch_size rows, row i of each built from the i-th index drawn, done    *)
(* as 0 or 1.                                                              *)
(***************************************************************************)
C9_SampleBatch ==
    Sampled /\ n_mem > BATCH_SIZE =>
        LET idx == last.experiences_idx
            b   == last.experiences
        IN  /\ Len(idx) = BATCH_SIZE
            /\ \A i \in 1..Len(idx) : idx[i] \in 0..(n_mem - 1)
            /\ \A i, j \in 1..Len(idx) : i # j => idx[i] # idx[j]
            /\ Len(b.states) = BATCH_SIZE
            /\ Len(b.actions) = BATCH_SIZE
            /\ Len(b.rewards) = BATCH_SIZE
            /\ Len(b.next_states) = BATCH_SIZE
            /\ Len(b.dones) = BATCH_SIZE
            /\ \A i \in 1..Len(idx) :
                  /\ b.states[i] = _encode_state(memory, frame_history, idx[i])
                  /\ b.next_states[i] = _encode_state(memory, frame_history, idx[i] + 1)
                  /\ b.actions[i] = memory[idx[i] + 1].action
                  /\ b.rewards[i] = memory[idx[i] + 1].reward
                  /\ b.dones[i] \in {0, 1}
                  /\ b.dones[i] = 1 <=> memory[idx[i] + 1].done

C9_Witness ==
    /\ last.op = "sample" /\ last.ok
    /\ n_mem > BATCH_SIZE
    /\ last.experiences_idx[1] > last.experiences_idx[BATCH_SIZE]
    /\ last.experiences.dones[1] # last.experiences.dones[BATCH_SIZE]

(***************************************************************************)
(* C10.  The target network's parameters change only inside soft_update:   *)
(* a learning step leaves the target exactly the soft update of its old    *)
(* value with the stepped local parameters, so the gradient step touched   *)
(* the local network only; act and a step that does not learn leave the    *)
(* target as it was.                                                       *)
(***************************************************************************)
TargetFrame ==
    /\ qnetwork_target' # qnetwork_target =>
          last'.op = "soft_update" \/ (last'.op = "step" /\ last'.learned)
    /\ last'.op = "step" /\ last'.learned =>
          /\ qnetwork_local' = last'.stepped
          /\ qnetwork_target' =
                [p \in 1..Len(qnetwork_target) |->
                    Blend(last'.stepped[p], qnetwork_target[p], TAU)]
    /\ last'.op = "act" => qnetwork_target' = qnetwork_target
    /\ last'.op = "step" /\ ~last'.learned => qnetwork_target' = qnetwork_target

C10_TargetFrame == [][TargetFrame]_vars

C10_Witness ==
    /\ Learned
    /\ qnetwork_local # last.local0
    /\ qnetwork_target # last.target0

(***************************************************************************)
(* C11.  When act returns, the local network's training-mode flag has the  *)
(* value it had when act was called, in the greedy and in the random       *)
(* branch, whether the network was in training or in inference mode.       *)
(***************************************************************************)
C11_ModeRestored == last.op = "act" => training = last.training0

\* The same for calls made in training mode.
C11_RestoredFromTraining ==
    last.op = "act" /\ last.training0 => training = last.training0

\* A greedy call made in inference mode.
C11_InferenceCall ==
    last.op = "act" /\ last.branch = "greedy" /\ ~last.training0

(***************************************************************************)
(* C12.  Every stack sample() produces, _encode_state(idx) and             *)
(* _encode_state(idx + 1) for each drawn idx, holds as its real frames the *)
(* frames of consecutive insertions in ascending insertion order, most     *)
(* recent last: no real frame was inserted later than the last frame of    *)
(* the stack, also when idx + 1 = n and the index wraps.                   *)
(***************************************************************************)
\* The insertion numbers of the real frames of a stack, in slot order.
SlotInsertions(mem, ord, H, idx) ==
    LET slots == EncodeSlots(mem, H, idx)
        real  == { k \in 1..Len(slots) : slots[k] # -1 }
        first == Len(slots) - Cardinality(real)
    IN  [k \in 1..Cardinality(real) |-> ord[SlotPosition(mem, slots[first + k]) + 1]]

Ascending(ins) == \A k \in 1..(Len(ins) - 1) : ins[k + 1] = ins[k] + 1

C12_InsertionOrder ==
    Sampled =>
        \A i \in 1..Len(last.experiences_idx) :
            LET idx == last.experiences_idx[i]
            IN  /\ Ascending(SlotInsertions(memory, order, frame_history, idx))
                /\ Ascending(SlotInsertions(memory, order, frame_history, idx + 1))

\* The same for the stacks of the drawn indices themselves.
C12_OrderInsideStore ==
    Sampled =>
        \A i \in 1..Len(last.experiences_idx) :
            Ascending(SlotInsertions(memory, order, frame_history, last.experiences_idx[i]))

(***************************************************************************)
(* C13.  sample() produces no batch whenever the store holds at most       *)
(* batch_size transitions, the case of exactly batch_size included, and a  *)
(* failed call leaves the store unchanged.                                 *)
(***************************************************************************)
C13_SampleFails ==
    last.op = "sample" /\ n_mem <= BATCH_SIZE =>
        ~last.ok /\ last.experiences = NoBatch

\* The same for a store of fewer than batch_size transitions.
C13_FailsBelowBatchSize ==
    last.op = "sample" /\ n_mem < BATCH_SIZE =>
        ~last.ok /\ last.experiences = NoBatch

(***************************************************************************)
(* C14.  The step counter starts at 0, after k calls of step it equals     *)
(* k mod update_every whether or not a call learned, it stays within       *)
(* 0..update_every - 1, and no operation other than step changes it.       *)
(***************************************************************************)
TStepCounts ==
    /\ t_step = calls % UPDATE_EVERY
    /\ t_step \in 0..(UPDATE_EVERY - 1)

TStepFrame == last'.op # "step" => t_step' = t_step

C14_StepCounter == [](TStepCounts) /\ [][TStepFrame]_vars

\* The counter back at 0 after a call that learned and after one that did not.
C14_Witness ==
    /\ last.op = "step"
    /\ calls = 2 * UPDATE_EVERY
    /\ t_step = 0
    /\ last.learned

(***************************************************************************)
(* C15.  A learning step is one gradient step on the local network, then   *)
(* one soft update of the target network: the targets and the loss are     *)
(* computed from the parameters both networks had before the step, each    *)
(* local parameter moves by at most one step of size LR, and the target    *)
(* is blended once, with the local parameters the gradient step produced.  *)
(***************************************************************************)
Abs(x) == IF x < 0 THEN -x ELSE x

C15_StepThenBlend ==
    Learned =>
        LET b       == last.experiences
            targets == QTargets(last.local0, last.target0, b, GAMMA)
            stepped == OptimizerStep(last.local0, b, targets)
        IN  /\ last.Q_targets = targets
            /\ last.stepped = stepped
            /\ qnetwork_local = stepped
            /\ \A p \in 1..Len(qnetwork_local) :
                  Abs(qnetwork_local[p] - last.local0[p]) \in {0, LR}
            /\ qnetwork_target =
                  [p \in 1..Len(last.target0) |->
                      Blend(qnetwork_local[p], last.target0[p], TAU)]

\* A learning step whose blend with the old local parameters would differ.
C15_Witness ==
    /\ Learned
    /\ \E p \in 1..Len(qnetwork_target) :
          /\ qnetwork_local[p] # last.local0[p]
          /\ qnetwork_target[p] # Blend(last.local0[p], last.target0[p], TAU)
          /\ qnetwork_target[p] = Blend(qnetwork_local[p], last.target0[p], TAU)

(***************************************************************************)
(* C16.  Stored transitions are immutable: sample (with get_experiences    *)
(* and _encode_state), act, soft_update and the learning inside step       *)
(* leave the store's length and every stored transition unchanged; add     *)
(* changes the store only by appending the new transition and, when the    *)
(* store is full, dropping the single oldest one.                          *)
(***************************************************************************)
StoreFrame ==
    /\ last'.op # "step" => memory' = memory
    /\ last'.op = "step" =>
          /\ Len(memory') = Min(Len(memory) + 1, BUFFER_SIZE)
          /\ memory'[Len(memory')] = last'.e
          /\ \A i \in 1..(Len(memory') - 1) :
                memory'[i] = memory[i + (Len(memory) + 1 - Len(memory'))]

C16_StoreImmutable == [][StoreFrame]_vars

\* A step that evicted, sampled the store and learned.
C16_Witness ==
    /\ Learned
    /\ calls = BUFFER_SIZE + 1
    /\ n_mem = BUFFER_SIZE
    /\ memory[n_mem] = last.e
    /\ \E i \in 1..BATCH_SIZE : last.experiences_idx[i] = 0

(***************************************************************************)
(* C17.  act updates no parameter and records nothing: in both branches    *)
(* the local and the target parameters, the store and the step counter     *)
(* are as before the call, and the action returned is in 0..action_size-1. *)
(***************************************************************************)
ActInRange == last.op = "act" => last.action \in 0..(action_size - 1)

ActFrame ==
    last'.op = "act" =>
        /\ qnetwork_local' = qnetwork_local
        /\ qnetwork_target' = qnetwork_target
        /\ memory' = memory
        /\ t_step' = t_step

C17_ActFrame == [](ActInRange) /\ [][ActFrame]_vars

\* A greedy call on a non-empty store, the counter off 0, returning action 1.
C17_Witness ==
    /\ last.op = "act"
    /\ last.branch = "greedy"
    /\ n_mem >= 1
    /\ t_step # 0
    /\ last.action = action_size - 1

(***************************************************************************)
(* C18.  When each non-terminal transition's next_state is the state of    *)
(* the transition recorded right after it, then for every drawn index idx  *)
(* with done = False the last frame of the encoded next state is the       *)
(* next_state recorded for transition idx, also for idx = n - 1, the       *)
(* newest transition, in a filling and in a full store.                    *)
(***************************************************************************)
WellFormed ==
    \A i \in 1..(n_mem - 1) :
        ~memory[i].done => memory[i + 1].state = memory[i].next_state

NextFrameAt(i) ==
    LET idx   == last.experiences_idx[i]
        stack == last.experiences.next_states[i]
    IN  ~memory[idx + 1].done =>
            stack[Len(stack)] = Normalize(memory[idx + 1].next_state)

C18_NextStateFrame ==
    Sampled /\ WellFormed =>
        \A i \in 1..Len(last.experiences_idx) : NextFrameAt(i)

\* The same for the drawn indices other than the newest transition.
C18_FrameBelowNewest ==
    Sampled /\ WellFormed =>
        \A i \in 1..Len(last.experiences_idx) :
            last.experiences_idx[i] < n_mem - 1 => NextFrameAt(i)
====
